---------------------------- MODULE Spec2Model ----------------------------
(***************************************************************************)
(* LinearRegressionData (simulate/simulate.py): the constructor and the    *)
(* load method, statement by statement, with the numpy arithmetic modelled *)
(* over exact rationals extended with the IEEE values inf, -inf and nan.   *)
(***************************************************************************)
EXTENDS Integers, Sequences, FiniteSets, TLC

(***************************************************************************)
(* Numbers.  A float is <<n, d>>: the rational n/d in lowest terms with    *)
(* d > 0, or one of <<1, 0>> (inf), <<-1, 0>> (-inf), <<0, 0>> (nan).      *)
(* Rounding is not modelled, and neither is the sign of a zero: a nonzero  *)
(* number divided by zero is the infinity with the numerator's sign.       *)
(***************************************************************************)
NaN ==
    <<0, 0>>

PInf ==
    <<1, 0>>

NInf ==
    <<-1, 0>>

Zero ==
    <<0, 1>>

One ==
    <<1, 1>>

Abs(i) ==
    IF i < 0 THEN -i ELSE i

Sgn(i) ==
    IF i < 0 THEN -1 ELSE IF i = 0 THEN 0 ELSE 1

RECURSIVE GCD(_, _)
GCD(a, b) ==
    IF b = 0 THEN a ELSE GCD(b, a % b)

\* n/d in lowest terms, d # 0
Rat(n, d) ==
    LET g == GCD(Abs(n), Abs(d))
        s == Sgn(d)
    IN  <<(s * n) \div g, (s * d) \div g>>

\* (n1/d1) * (n2/d2), cancelling across before multiplying; d1, d2 # 0
RatMul(n1, d1, n2, d2) ==
    LET g1 == GCD(Abs(n1), Abs(d2))
        g2 == GCD(Abs(n2), Abs(d1))
    IN  IF n1 = 0 \/ n2 = 0 THEN <<0, 1>>
        ELSE Rat((n1 \div g1) * (n2 \div g2), (d1 \div g2) * (d2 \div g1))

Num(i) ==
    <<i, 1>>

IsNaN(a) ==
    a = NaN

IsInf(a) ==
    a = PInf \/ a = NInf

IsFinite(a) ==
    a[2] # 0

\* the sign of a number that is not nan
SignOf(a) ==
    Sgn(a[1])

InfOfSign(s) ==
    IF s < 0 THEN NInf ELSE PInf

Neg(a) ==
    <<-a[1], a[2]>>

Add(a, b) ==
    IF IsNaN(a) \/ IsNaN(b) THEN NaN
    ELSE IF IsInf(a) THEN (IF IsInf(b) /\ a # b THEN NaN ELSE a)
    ELSE IF IsInf(b) THEN b
    ELSE LET g == GCD(a[2], b[2])
         IN  Rat(a[1] * (b[2] \div g) + b[1] * (a[2] \div g),
                 (a[2] \div g) * b[2])

Sub(a, b) ==
    Add(a, Neg(b))

Mul(a, b) ==
    IF IsNaN(a) \/ IsNaN(b) THEN NaN
    ELSE IF IsInf(a) \/ IsInf(b)
         THEN (IF SignOf(a) = 0 \/ SignOf(b) = 0 THEN NaN
               ELSE InfOfSign(SignOf(a) * SignOf(b)))
    ELSE RatMul(a[1], a[2], b[1], b[2])

\* numpy true division: x/0 is inf or nan with a warning, never an exception
Div(a, b) ==
    IF IsNaN(a) \/ IsNaN(b) THEN NaN
    ELSE IF IsInf(b) THEN (IF IsInf(a) THEN NaN ELSE Zero)
    ELSE IF SignOf(b) = 0
         THEN (IF SignOf(a) = 0 THEN NaN ELSE InfOfSign(SignOf(a)))
    ELSE IF IsInf(a) THEN InfOfSign(SignOf(a) * SignOf(b))
    ELSE RatMul(a[1], a[2], b[2], b[1])

\* IEEE ==: nan equals nothing, itself included
Eq(a, b) ==
    ~IsNaN(a) /\ ~IsNaN(b) /\ a = b

\* a < b for finite a, b
Less(a, b) ==
    LET g == GCD(a[2], b[2])
    IN  a[1] * (b[2] \div g) < b[1] * (a[2] \div g)

RECURSIVE SumSeq(_)
SumSeq(v) ==
    IF v = <<>> THEN Zero ELSE Add(Head(v), SumSeq(Tail(v)))

\* np.dot of two vectors of the same length
Dot(u, v) ==
    SumSeq([i \in 1..Len(u) |-> Mul(u[i], v[i])])

Scale(x, v) ==
    [i \in 1..Len(v) |-> Mul(x, v[i])]

Column(M, i) ==
    [r \in 1..Len(M) |-> M[r][i]]


(***************************************************************************)
(* Penalties.  A penalty object is [kind, l]: weight l times the L1 norm   *)
(* ("L1", gradient l*sign(b)) or l/2 times the squared L2 norm ("L2",      *)
(* gradient l*b).  Weight 0 is the penalty whose gradient is always zero.  *)
(***************************************************************************)
PenaltyGrad(p, b) ==
    [i \in 1..Len(b) |->
        IF p.kind = "L1" THEN Mul(p.l, Num(SignOf(b[i])))
        ELSE Mul(p.l, b[i])]

(***************************************************************************)
(* __init__ (lines 82-93).  The penalties argument is [isList, obj]: obj   *)
(* is the sequence passed, or, for a single object, the sequence holding   *)
(* just that object.                                                       *)
(***************************************************************************)
CoercePenalties(arg) ==
    IF arg.isList THEN arg.obj ELSE <<arg.obj[1]>>

Mean(v) ==
    Div(SumSeq(v), Num(Len(v)))

\* subtracts the sum, not the mean
StoredResidualNoDivide(e_in, icpt) ==
    IF icpt THEN [r \in 1..Len(e_in) |-> Sub(e_in[r], SumSeq(e_in))] ELSE e_in

\* self.e = e - np.mean(e) if self.intercept else e
StoredResidual(e_in, icpt) ==
    IF icpt THEN [r \in 1..Len(e_in) |-> Sub(e_in[r], Mean(e_in))] ELSE e_in

None ==
    <<>>

\* self.snr = float(snr) if snr is not None else None
StoredSnr(s) ==
    s

(***************************************************************************)
(* load, lines 129-148: the direct computation.  self is the record of the *)
(* instance's fields [penalties, X0, e, intercept]; beta is a sequence     *)
(* (the p-by-1 array).  Columns are numbered from 1, so the intercept is   *)
(* column 1 and start is 1 or 0 as in the source.                          *)
(***************************************************************************)
NRows(self) ==
    Len(self.X0)

NCols(self) ==
    Len(self.X0[1])

Start(self) ==
    IF self.intercept THEN 1 ELSE 0

\* beta[1:, :] if self.intercept else beta
SubBeta(self, beta) ==
    IF self.intercept THEN Tail(beta) ELSE beta

RECURSIVE GradAcc(_, _, _)
GradAcc(pens, b, acc) ==
    IF pens = <<>> THEN acc
    ELSE GradAcc(Tail(pens), b,
                 [i \in 1..Len(b) |-> Sub(acc[i], PenaltyGrad(Head(pens), b)[i])])

\* grad += p.grad(...)
GradPlus(self, beta) ==
    LET b == SubBeta(self, beta)
        g == GradAcc(self.penalties, b, [i \in 1..Len(b) |-> Zero])
    IN  [i \in 1..Len(b) |-> Neg(g[i])]

\* grad = 0.0; for p in self.penalties: grad -= p.grad(...)
Grad(self, beta) ==
    LET b == SubBeta(self, beta)
    IN  GradAcc(self.penalties, b, [i \in 1..Len(b) |-> Zero])

\* Mte = np.dot(self.X0.T, self.e), without the intercept row
Mte(self) ==
    [i \in 1..(NCols(self) - Start(self)) |->
        Dot(Column(self.X0, i + Start(self)), self.e)]

\* alpha = np.divide(grad, Mte)
Alpha(self, beta) ==
    [i \in 1..(NCols(self) - Start(self)) |-> Div(Grad(self, beta)[i], Mte(self)[i])]

\* X = np.zeros(self.X0.shape) in place of np.ones
BuildXZeros(self, beta) ==
    LET alpha == Alpha(self, beta)
    IN  [r \in 1..NRows(self) |->
            [i \in 1..NCols(self) |->
                IF i <= Start(self) THEN Zero
                ELSE Mul(self.X0[r][i], alpha[i - Start(self)])]]

\* X = np.ones(self.X0.shape); X[:, i] = self.X0[:, i] * alpha[i - start, 0]
BuildX(self, beta) ==
    LET alpha == Alpha(self, beta)
    IN  [r \in 1..NRows(self) |->
            [i \in 1..NCols(self) |->
                IF i <= Start(self) THEN One
                ELSE Mul(self.X0[r][i], alpha[i - Start(self)])]]

\* np.dot(X, beta) for a p-by-1 beta
MatVec(X, beta) ==
    [r \in 1..Len(X) |-> Dot(X[r], beta)]

\* y = np.dot(X, beta) + self.e
BuildYPlus(self, X, beta) ==
    [r \in 1..Len(X) |-> Add(MatVec(X, beta)[r], self.e[r])]

\* y = np.dot(X, beta) - self.e
BuildY(self, X, beta) ==
    [r \in 1..Len(X) |-> Sub(MatVec(X, beta)[r], self.e[r])]

Raised ==
    [status |-> "raised", X |-> <<>>, y |-> <<>>, beta |-> <<>>, e |-> <<>>]

\* a zero entry of Mte raises ZeroDivisionError, as Python's own division would
DirectLoadGuarded(self, beta) ==
    IF Len(beta) # NCols(self) \/ \E i \in DOMAIN Mte(self) : Mte(self)[i] = Zero
    THEN Raised
    ELSE LET X == BuildX(self, beta)
         IN  [status |-> "returned", X |-> X, y |-> BuildY(self, X, beta),
              beta |-> beta, e |-> self.e]

\* Lines 129-148.  A beta whose row count is not X0's column count makes
\* np.divide, the column assignment or np.dot raise; nothing else raises.
DirectLoad(self, beta) ==
    IF Len(beta) # NCols(self) THEN Raised
    ELSE LET X == BuildX(self, beta)
         IN  [status |-> "returned", X |-> X, y |-> BuildY(self, X, beta),
              beta |-> beta, e |-> self.e]


(***************************************************************************)
(* The closure f of load (lines 108-118).  Only the sign of f's value, and *)
(* whether it is zero, infinite or nan, is ever used by the two root       *)
(* finders, so f's value is modelled by the number of that class: -1, 0,   *)
(* 1, inf or nan.  The square root is avoided by comparing squares.        *)
(***************************************************************************)
\* |v|^2, the square of np.linalg.norm(v)
Norm2(v) ==
    SumSeq([r \in 1..Len(v) |-> Mul(v[r], v[r])])

\* the class of np.linalg.norm(v) / np.linalg.norm(e) - s, for s a number
FValue(v, e, s) ==
    LET nv2 == Norm2(v)
        ne2 == Norm2(e)
    IN  IF IsNaN(nv2) THEN NaN
        ELSE IF IsInf(nv2) THEN PInf
        ELSE IF ne2 = Zero THEN (IF nv2 = Zero THEN NaN ELSE PInf)
        ELSE IF SignOf(s) < 0 THEN One
        ELSE Num(SignOf(Sub(Div(nv2, ne2), Mul(s, s))))

GtZero(a) ==
    ~IsNaN(a) /\ SignOf(a) > 0

GeZero(a) ==
    ~IsNaN(a) /\ SignOf(a) >= 0

(***************************************************************************)
(* One invocation of load is a frame: its local variables and the place it *)
(* has reached.  ret holds the result of the inner self.load(x * beta) the *)
(* frame is waiting for inside f.                                          *)
(***************************************************************************)
NoRet ==
    [status |-> "none", X |-> <<>>, y |-> <<>>, beta |-> <<>>, e |-> <<>>]

NewFrame(b) ==
    [arg |-> b, beta |-> b, pc |-> "check", inv |-> FALSE, old_snr |-> None,
     low |-> Zero, high |-> Zero, it |-> 0, fl |-> Zero, fh |-> Zero,
     xa |-> Zero, xb |-> Zero, dm |-> Zero, xm |-> Zero, fa |-> Zero,
     k |-> Zero, exc |-> "none", ret |-> NoRet]

BracketPcs ==
    {"br_low", "br_high"}

BisectPcs ==
    {"bi_a", "bi_b", "bi_m"}

\* the argument x of the call f(x) the frame is making
CurrentX(c) ==
    CASE c.pc = "br_low" -> c.low
      [] c.pc = "br_high" -> c.high
      [] c.pc = "bi_a" -> c.xa
      [] c.pc = "bi_b" -> c.xb
      [] OTHER -> c.xm

\* Line 104: if self.snr is not None
CheckStmt(c, snrNow) ==
    IF snrNow # None THEN [c EXCEPT !.pc = "save", !.inv = TRUE]
    ELSE [c EXCEPT !.pc = "body"]

\* Line 105: old_snr = self.snr
SaveStmt(c, snrNow) ==
    [c EXCEPT !.old_snr = snrNow, !.pc = "toggle"]

\* self.snr is left as it was
ToggledSnrKept(old) ==
    old

\* Line 106: self.snr = None
ToggledSnr(old) ==
    None

\* Lines 120-121: find_bisect_interval(f, low=0.0, high=old_snr) is entered
ToggleStmt(c) ==
    [c EXCEPT !.pc = "br_low", !.low = Zero,
              !.high = IF c.old_snr = None THEN Zero ELSE c.old_snr, !.it = 0]

\* Lines 109, 117-118: what f(x) gives once the inner load has come back:
\* the inner load's exception, a TypeError when old_snr is None, or a value
FResult(self, c) ==
    IF c.ret.status = "raised" THEN [exc |-> "inner", val |-> NaN]
    ELSE IF c.old_snr = None THEN [exc |-> "type", val |-> NaN]
    ELSE [exc |-> "none",
          val |-> FValue(MatVec(c.ret.X, Scale(CurrentX(c), c.beta)), self.e, c.old_snr)]

RaiseIn(c, kind) ==
    [c EXCEPT !.exc = kind, !.pc = "restore", !.ret = NoRet]


(***************************************************************************)
(* utils.find_bisect_interval(f, low, high): each round evaluates f(low)   *)
(* and f(high) and returns (low, high) when the two signs differ;          *)
(* otherwise it expands the interval geometrically, and fails after        *)
(* MaxExpand rounds.                                                       *)
(***************************************************************************)
MaxExpand ==
    4

SignChange(l, h) ==
    ~IsNaN(l) /\ ~IsNaN(h) /\ SignOf(l) # SignOf(h)

ExpandBound(x) ==
    Mul(Num(2), x)

BracketTest(c, fh) ==
    IF SignChange(c.fl, fh)
    THEN [c EXCEPT !.fh = fh, !.pc = "bi_a", !.xa = c.low, !.xb = c.high,
                   !.ret = NoRet]
    ELSE IF c.it + 1 >= MaxExpand THEN RaiseIn(c, "bracket")
    ELSE [c EXCEPT !.fh = fh, !.pc = "br_low", !.it = c.it + 1,
                   !.low = ExpandBound(c.low), !.high = ExpandBound(c.high),
                   !.ret = NoRet]

BracketStmt(self, c) ==
    LET r == FResult(self, c)
    IN  IF r.exc # "none" THEN RaiseIn(c, r.exc)
        ELSE IF c.pc = "br_low"
             THEN [c EXCEPT !.fl = r.val, !.pc = "br_high", !.ret = NoRet]
        ELSE BracketTest(c, r.val)

(***************************************************************************)
(* scipy.optimize.bisect(f, low, high) (line 122), as its C routine runs:  *)
(*   fa = f(xa); fb = f(xb); if (fa*fb > 0) error;                         *)
(*   if (fa == 0) return xa; if (fb == 0) return xb; dm = xb - xa;         *)
(*   for (i = 0; i < iter; i++) { dm *= .5; xm = xa + dm; fm = f(xm);      *)
(*     if (fm*fa >= 0) xa = xm;                                            *)
(*     if (fm == 0 || fabs(dm) < tol) return xm; }                         *)
(*   error;                                                                *)
(* tol is 1/TolDen here, far coarser than scipy's 1e-12, to keep the       *)
(* search short.                                                           *)
(***************************************************************************)
TolDen ==
    4

BisectMaxIter ==
    100

Tol ==
    Rat(1, TolDen)

AbsNum(a) ==
    <<Abs(a[1]), a[2]>>

Half(a) ==
    Mul(Rat(1, 2), a)

Converged(c, k) ==
    [c EXCEPT !.k = k, !.pc = "restore", !.ret = NoRet]

BisectStart(c, fb) ==
    IF GtZero(Mul(c.fa, fb)) THEN RaiseIn(c, "bisect")
    ELSE IF Eq(c.fa, Zero) THEN Converged(c, c.xa)
    ELSE IF Eq(fb, Zero) THEN Converged(c, c.xb)
    ELSE LET dm == Half(Sub(c.xb, c.xa))
         IN  [c EXCEPT !.dm = dm, !.xm = Add(c.xa, dm), !.it = 0,
                       !.pc = "bi_m", !.ret = NoRet]

BisectIter(c, fm) ==
    LET xa == IF GeZero(Mul(fm, c.fa)) THEN c.xm ELSE c.xa
    IN  IF Eq(fm, Zero) \/ Less(AbsNum(c.dm), Tol) THEN Converged(c, c.xm)
        ELSE IF c.it + 1 >= BisectMaxIter THEN RaiseIn(c, "bisect")
        ELSE LET dm == Half(c.dm)
             IN  [c EXCEPT !.xa = xa, !.dm = dm, !.xm = Add(xa, dm),
                           !.it = c.it + 1, !.ret = NoRet]

BisectStmt(self, c) ==
    LET r == FResult(self, c)
    IN  IF r.exc # "none" THEN RaiseIn(c, r.exc)
        ELSE IF c.pc = "bi_a"
             THEN [c EXCEPT !.fa = r.val, !.pc = "bi_b", !.ret = NoRet]
        ELSE IF c.pc = "bi_b" THEN BisectStart(c, r.val)
        ELSE BisectIter(c, r.val)

(***************************************************************************)
(* Lines 124-127: the finally clause, then the rescaling of beta.          *)
(***************************************************************************)
\* no try/finally: an exception leaves self.snr as the toggle set it
RestoredSnrNoFinally(c) ==
    IF c.exc # "none" THEN None ELSE c.old_snr

\* the restoration is missing
RestoredSnrNever(c) ==
    None

\* Line 125: self.snr = old_snr
RestoredSnr(c) ==
    c.old_snr

\* beta is returned as it was passed
RescaledBetaSame(beta, k) ==
    beta

\* Line 127: beta = beta * snr
RescaledBeta(beta, k) ==
    Scale(k, beta)

\* the frame after line 125, when no exception is propagating
RestoreStmt(c) ==
    [c EXCEPT !.pc = "body", !.beta = RescaledBeta(c.beta, c.k)]

(***************************************************************************)
(* A thread's call stack, top last.  StepThread runs one statement of the  *)
(* top frame: it gives the stack and the stored snr afterwards, and the    *)
(* outcome of the outermost call when that call has just finished.         *)
(***************************************************************************)
Top(stk) ==
    stk[Len(stk)]

Front(stk) ==
    SubSeq(stk, 1, Len(stk) - 1)

SetTop(stk, c) ==
    [stk EXCEPT ![Len(stk)] = c]

NoOutcome ==
    [done |-> FALSE, arg |-> <<>>, ret |-> NoRet, inv |-> FALSE,
     old_snr |-> None, exc |-> "none", k |-> Zero]

Outcome(c, res) ==
    [done |-> TRUE, arg |-> c.arg, ret |-> res, inv |-> c.inv,
     old_snr |-> c.old_snr, exc |-> c.exc, k |-> c.k]

\* the top frame ends with res: the outermost call is over, or the result
\* goes to the frame that called load inside f
Finish(stk, snrNow, res) ==
    IF Len(stk) = 1
    THEN [stk |-> <<>>, snr |-> snrNow, out |-> Outcome(Top(stk), res)]
    ELSE [stk |-> SetTop(Front(stk), [Top(Front(stk)) EXCEPT !.ret = res]),
          snr |-> snrNow, out |-> NoOutcome]

Continue(stk, snrNow, c) ==
    [stk |-> SetTop(stk, c), snr |-> snrNow, out |-> NoOutcome]

Waiting(c) ==
    c.pc \in BracketPcs \cup BisectPcs /\ c.ret.status = "none"

StepThread(self, stk, snrNow) ==
    LET c == Top(stk)
    IN  CASE c.pc = "check" -> Continue(stk, snrNow, CheckStmt(c, snrNow))
          [] c.pc = "save" -> Continue(stk, snrNow, SaveStmt(c, snrNow))
          [] c.pc = "toggle" -> Continue(stk, ToggledSnr(snrNow), ToggleStmt(c))
          [] Waiting(c) ->
                [stk |-> Append(stk, NewFrame(Scale(CurrentX(c), c.beta))),
                 snr |-> snrNow, out |-> NoOutcome]
          [] c.pc \in BracketPcs /\ ~Waiting(c) ->
                Continue(stk, snrNow, BracketStmt(self, c))
          [] c.pc \in BisectPcs /\ ~Waiting(c) ->
                Continue(stk, snrNow, BisectStmt(self, c))
          [] c.pc = "restore" ->
                IF c.exc # "none" THEN Finish(stk, RestoredSnr(c), Raised)
                ELSE Continue(stk, RestoredSnr(c), RestoreStmt(c))
          [] OTHER -> Finish(stk, snrNow, DirectLoad(self, c.beta))

\* a whole call of load(b) run alone on the instance, from stored snr snrNow
RECURSIVE RunFrom(_, _, _)
RunFrom(self, stk, snrNow) ==
    LET r == StepThread(self, stk, snrNow)
    IN  IF r.out.done THEN r ELSE RunFrom(self, r.stk, r.snr)


(***************************************************************************)
(* The instance, its callers, and the arguments tried.                     *)
(***************************************************************************)
VARIABLES
    ctor,        \* the arguments __init__ was called with
    penalties,   \* self.penalties
    X0,          \* self.X0
    e,           \* self.e
    intercept,   \* self.intercept
    snr,         \* self.snr
    stack,       \* per thread, the frames of its running load call
    last,        \* per thread, the outcome of its last finished load call
    calls,       \* per thread, the number of load calls it has made
    overlapped   \* whether two load calls have ever been running at once

vars ==
    <<ctor, penalties, X0, e, intercept, snr, stack, last, calls, overlapped>>

Threads ==
    {"t1", "t2"}

MaxCalls ==
    2

Vec(ints) ==
    [i \in 1..Len(ints) |-> Num(ints[i])]

Mat(rows) ==
    [r \in 1..Len(rows) |-> Vec(rows[r])]

L1(w) ==
    [kind |-> "L1", l |-> Num(w)]

L2(w) ==
    [kind |-> "L2", l |-> Num(w)]

PenaltyArgs ==
    { [isList |-> TRUE, obj |-> <<>>],
      [isList |-> TRUE, obj |-> <<L1(0)>>],
      [isList |-> TRUE, obj |-> <<L1(1)>>],
      [isList |-> FALSE, obj |-> <<L2(1)>>],
      [isList |-> TRUE, obj |-> <<L1(1), L2(2)>>] }

\* templates whose first column is ones, as intercept=True requires
InterceptTemplates ==
    { Mat(<<<<1, 1>>, <<1, 2>>>>),
      Mat(<<<<1, 2>>, <<1, 2>>>>),
      Mat(<<<<1, 0>>, <<1, 3>>>>),
      Mat(<<<<1, 1>>, <<1, 2>>, <<1, 3>>>>) }

PlainTemplates ==
    { Mat(<<<<1, 0>>, <<0, 1>>>>),
      Mat(<<<<1, 2>>, <<2, 1>>>>),
      Mat(<<<<1, 1>>, <<1, -1>>>>),
      Mat(<<<<0, 1>>, <<0, 2>>>>) }

Residuals ==
    { Vec(<<1, -1>>), Vec(<<2, 0>>), Vec(<<1, 2>>), Vec(<<1, -1, 3>>) }

Betas ==
    { Vec(<<1, 1>>), Vec(<<2, -1>>), Vec(<<0, 1>>), Vec(<<1, 0>>),
      Vec(<<0, 0>>), Vec(<<1>>) }

CtorArgs(pens, templates, residuals, snrs, icpt) ==
    { c \in [penalties : pens, X0 : templates, e : residuals, snr : snrs,
             intercept : {icpt}] : Len(c.e) = Len(c.X0) }

\* instances built without snr
DirectCtors ==
    CtorArgs(PenaltyArgs, InterceptTemplates, Residuals, {None}, TRUE)
    \cup CtorArgs(PenaltyArgs, PlainTemplates, Residuals, {None}, FALSE)

\* instances built with snr
SnrCtors ==
    CtorArgs(PenaltyArgs,
             {Mat(<<<<1, 1>>, <<1, 2>>>>), Mat(<<<<1, 2>>, <<1, 2>>>>)},
             {Vec(<<1, -1>>), Vec(<<1, 2>>)}, {Num(1), Num(2)}, TRUE)
    \cup CtorArgs(PenaltyArgs,
             {Mat(<<<<1, 0>>, <<0, 1>>>>), Mat(<<<<1, 2>>, <<2, 1>>>>)},
             {Vec(<<1, -1>>), Vec(<<1, 2>>)}, {Num(1), Num(2)}, FALSE)

ConcCtors ==
    CtorArgs({[isList |-> TRUE, obj |-> <<L1(1)>>]},
             {Mat(<<<<1, 0>>, <<0, 1>>>>)}, {Vec(<<1, -1>>)}, {Num(1)}, FALSE)

ConcBetas ==
    { Vec(<<1, 1>>), Vec(<<2, -1>>) }

Self ==
    [penalties |-> penalties, X0 |-> X0, e |-> e, intercept |-> intercept]

\* The state __init__ leaves (lines 86-93)
Constructed(c) ==
    /\ ctor = c
    /\ penalties = CoercePenalties(c.penalties)
    /\ X0 = c.X0
    /\ intercept = c.intercept
    /\ e = StoredResidual(c.e, c.intercept)
    /\ snr = StoredSnr(c.snr)
    /\ stack = [t \in Threads |-> <<>>]
    /\ last = [t \in Threads |-> NoOutcome]
    /\ calls = [t \in Threads |-> 0]
    /\ overlapped = FALSE

Init ==
    \E c \in DirectCtors \cup SnrCtors : Constructed(c)

InitConc ==
    \E c \in ConcCtors : Constructed(c)

Instance ==
    <<ctor, penalties, X0, e, intercept>>

\* a caller enters load(b)
Call(t, b, limit) ==
    /\ stack[t] = <<>>
    /\ calls[t] < limit
    /\ stack' = [stack EXCEPT ![t] = <<NewFrame(b)>>]
    /\ calls' = [calls EXCEPT ![t] = calls[t] + 1]
    /\ last' = [last EXCEPT ![t] = NoOutcome]
    /\ overlapped' = (overlapped \/ \E u \in Threads \ {t} : stack[u] # <<>>)
    /\ UNCHANGED <<Instance, snr>>

\* thread t runs the next statement of its top frame
Advance(t) ==
    LET r == StepThread(Self, stack[t], snr)
    IN  /\ stack' = [stack EXCEPT ![t] = r.stk]
        /\ snr' = r.snr
        /\ last' = IF r.out.done THEN [last EXCEPT ![t] = r.out] ELSE last
        /\ UNCHANGED <<Instance, calls, overlapped>>

At(t, pcs) ==
    stack[t] # <<>> /\ Top(stack[t]).pc \in pcs

\* Line 104
Check(t) ==
    At(t, {"check"}) /\ Advance(t)

\* Line 105
SaveOld(t) ==
    At(t, {"save"}) /\ Advance(t)

\* Line 106
Toggle(t) ==
    At(t, {"toggle"}) /\ Advance(t)

\* Line 109: f calls self.load(x * beta)
CallF(t) ==
    At(t, BracketPcs \cup BisectPcs) /\ Waiting(Top(stack[t])) /\ Advance(t)

\* Lines 117-121: f returns into find_bisect_interval
Bracket(t) ==
    At(t, BracketPcs) /\ ~Waiting(Top(stack[t])) /\ Advance(t)

\* Lines 117-118, 122: f returns into scipy.optimize.bisect
Bisect(t) ==
    At(t, BisectPcs) /\ ~Waiting(Top(stack[t])) /\ Advance(t)

\* Lines 124-127
Restore(t) ==
    At(t, {"restore"}) /\ Advance(t)

\* Lines 129-148
Body(t) ==
    At(t, {"body"}) /\ Advance(t)

Statement(t) ==
    \/ Check(t)
    \/ SaveOld(t)
    \/ Toggle(t)
    \/ CallF(t)
    \/ Bracket(t)
    \/ Bisect(t)
    \/ Restore(t)
    \/ Body(t)

\* sequential use: one caller, one load call at a time
Next ==
    \/ \E b \in Betas : Call("t1", b, MaxCalls)
    \/ Statement("t1")

Spec ==
    Init /\ [][Next]_vars

\* two threads, one load call each, interleaved statement by statement
NextConc ==
    \/ \E t \in Threads : \E b \in ConcBetas : Call(t, b, 1)
    \/ \E t \in Threads : Statement(t)

SpecConc ==
    InitConc /\ [][NextConc]_vars


(***************************************************************************)
(* Vocabulary of the properties.                                           *)
(***************************************************************************)
Finished(t) ==
    stack[t] = <<>> /\ last[t].done

Returned(t) ==
    Finished(t) /\ last[t].ret.status = "returned"

HasSnr ==
    ctor.snr # None

WellShaped(b) ==
    Len(b) = Len(ctor.X0[1])

\* the columns that are scaled: all but the intercept column
ScaledCols ==
    {i \in 1..Len(ctor.X0[1]) : ~(ctor.intercept /\ i = 1)}

\* X0[:, i]' . e for the stored residual
ColDotE(M, i) ==
    Dot(Column(M, i), e)

NonzeroMte ==
    \A i \in ScaledCols : ColDotE(X0, i) # Zero

\* the i-th entry of the sum of the penalties' gradients at the non-intercept
\* coordinates of b, for a column i of ScaledCols
RECURSIVE PenaltyGradSum(_, _, _)
PenaltyGradSum(pens, b, i) ==
    IF pens = <<>> THEN Zero
    ELSE Add(PenaltyGrad(Head(pens), b)[i], PenaltyGradSum(Tail(pens), b, i))

GradSumAt(b, i) ==
    IF intercept THEN PenaltyGradSum(penalties, Tail(b), i - 1)
    ELSE PenaltyGradSum(penalties, b, i)

Reconstructs(r) ==
    \A j \in 1..Len(r.y) : Eq(r.y[j], Sub(Dot(r.X[j], r.beta), r.e[j]))

AllFinished ==
    \A t \in Threads : Finished(t)

(***************************************************************************)
(* C1.  With snr = s given at construction, whenever a load call has       *)
(* finished, by returning or by raising, self.snr is s again.              *)
(***************************************************************************)
C1_SnrRestoredOnExit ==
    \A t \in Threads :
        (HasSnr /\ Finished(t)) => snr = StoredSnr(ctor.snr)

\* a call that took the inversion branch and left by the bracket search's
\* exception, after which snr is the construction value
C1_Witness ==
    /\ HasSnr
    /\ Finished("t1")
    /\ last["t1"].inv
    /\ last["t1"].ret.status = "raised"
    /\ last["t1"].exc = "bracket"
    /\ snr = ctor.snr

(***************************************************************************)
(* C2.  As claimed: every tuple load returns satisfies                     *)
(* y == X.beta_used - e_used elementwise.  It fails when an entry of y is  *)
(* nan, which happens when some X0[:, i]' . e is zero.                     *)
(***************************************************************************)
C2_Original ==
    \A t \in Threads : Returned(t) => Reconstructs(last[t].ret)

\* C2 as amended: every tuple load returns on an instance whose scaled
\* columns all have X0[:, i]' . e # 0 satisfies y == X.beta_used - e_used.
C2_Reconstruction ==
    \A t \in Threads :
        (Returned(t) /\ NonzeroMte) => Reconstructs(last[t].ret)

C2_Witness ==
    /\ Returned("t1")
    /\ NonzeroMte
    /\ HasSnr
    /\ intercept
    /\ last["t1"].ret.beta # last["t1"].arg
    /\ Reconstructs(last["t1"].ret)

(***************************************************************************)
(* C3.  Without snr, for each scaled column i with X0[:, i]' . e # 0 the   *)
(* returned column is X0[:, i] * (grad[i] / Mte[i]), grad being minus the  *)
(* sum of the penalties' gradients, and so X[:, i]' . e_used is minus the  *)
(* i-th entry of that sum.                                                 *)
(***************************************************************************)
C3_GradientBalance ==
    \A t \in Threads :
        (Returned(t) /\ ~HasSnr) =>
            \A i \in ScaledCols :
                ColDotE(X0, i) # Zero =>
                    LET r == last[t].ret
                        g == Neg(GradSumAt(last[t].arg, i))
                    IN  /\ \A j \in 1..Len(r.X) :
                              r.X[j][i] = Mul(X0[j][i], Div(g, ColDotE(X0, i)))
                        /\ Dot(Column(r.X, i), r.e) = g

\* a returned tuple with two penalties, a nonzero gradient and nonzero Mte
C3_Witness ==
    /\ Returned("t1")
    /\ ~HasSnr
    /\ Len(penalties) = 2
    /\ NonzeroMte
    /\ \E i \in ScaledCols : GradSumAt(last["t1"].arg, i) # Zero


(***************************************************************************)
(* C4.  The signal-to-noise ratio of what an instance with snr = s returns.*)
(***************************************************************************)
NonzeroBeta(b) ==
    \E i \in 1..Len(b) : b[i] # Zero

\* the class of |X.b| / |e| - s for the tuple (X, y, b, e) of r
SnrMinusTarget(r, s) ==
    FValue(MatVec(r.X, r.beta), r.e, s)

\* the same for the data the direct computation gives from x * b
SnrMinusTargetAt(x, b, s) ==
    SnrMinusTarget(DirectLoad(Self, Scale(x, b)), s)

Opposite(a, b) ==
    ~IsNaN(a) /\ ~IsNaN(b) /\ SignOf(a) * SignOf(b) < 0

RECURSIVE Pow2(_)
Pow2(n) ==
    IF n = 0 THEN 1 ELSE 2 * Pow2(n - 1)

\* the widths s * 2^a the bisection's interval can have when it stops at
\* tolerance Tol: below Tol, and not below Tol / 2
FinalWidths(s) ==
    {d \in {Mul(s, Rat(Pow2(MaxExpand), Pow2(j))) : j \in 0..(MaxExpand + TolDen + 2)} :
        Less(d, Tol) /\ ~Less(Add(d, d), Tol)}

\* the ratio is s exactly, or it passes s within less than Tol of k: it is on
\* one side of s at k and on the other side at k - d or k + d, d < Tol
WithinTolerance(o, s) ==
    LET here == SnrMinusTarget(o.ret, s)
    IN  \/ here = Zero
        \/ \E d \in FinalWidths(s) :
              \/ Opposite(here, SnrMinusTargetAt(Add(o.k, d), o.arg, s))
              \/ Opposite(here, SnrMinusTargetAt(Sub(o.k, d), o.arg, s))

SnrAccurate(o) ==
    /\ o.ret.status = "returned"
    /\ Less(Zero, o.k)
    /\ o.ret.beta = Scale(o.k, o.arg)
    /\ WithinTolerance(o, ctor.snr)

\* C4 as claimed: with snr = s > 0 and a nonzero beta of p rows, load returns
\* k * beta, k > 0, and data whose ratio |X.beta_used| / |e_used| is s up to
\* the tolerance.  It fails where no k exists: the bracket search raises.
C4_Original ==
    \A t \in Threads :
        (HasSnr /\ Finished(t) /\ WellShaped(last[t].arg)
            /\ NonzeroBeta(last[t].arg)) => SnrAccurate(last[t])

(***************************************************************************)
(* C4 as amended: with snr = s > 0, a nonzero beta and every scaled        *)
(* column's X0[:, i]' . e nonzero, whenever load returns, it returns       *)
(* k * beta for a k > 0 and data whose ratio |X.beta_used| / |e_used| is s *)
(* up to the bisection's tolerance.                                        *)
(***************************************************************************)
C4_SnrAccuracy ==
    \A t \in Threads :
        (HasSnr /\ Returned(t) /\ NonzeroBeta(last[t].arg) /\ NonzeroMte)
            => SnrAccurate(last[t])

\* a returned tuple whose k was found by halving, after the bracket grew
C4_Witness ==
    /\ HasSnr
    /\ Returned("t1")
    /\ NonzeroBeta(last["t1"].arg)
    /\ NonzeroMte
    /\ SnrMinusTarget(last["t1"].ret, ctor.snr) # Zero
    /\ Less(ctor.snr, last["t1"].k)
    /\ SnrAccurate(last["t1"])

(***************************************************************************)
(* C5.  A finished load call's outcome is what the same call gives on the  *)
(* instance as constructed, whatever calls came before; the instance's     *)
(* fields are then as constructed; and no step of load changes the array   *)
(* its caller passed.                                                      *)
(***************************************************************************)
FreshSelf ==
    [penalties |-> CoercePenalties(ctor.penalties), X0 |-> ctor.X0,
     e |-> StoredResidual(ctor.e, ctor.intercept), intercept |-> ctor.intercept]

FreshOutcome(b) ==
    RunFrom(FreshSelf, <<NewFrame(b)>>, StoredSnr(ctor.snr)).out

AsConstructed ==
    /\ Self = FreshSelf
    /\ snr = StoredSnr(ctor.snr)

SameOutcome(t) ==
    LET f == FreshOutcome(last[t].arg)
    IN  last[t].ret = f.ret /\ last[t].exc = f.exc

ArgKept ==
    \A t \in Threads :
        (stack[t] # <<>> /\ stack'[t] # <<>>) => stack'[t][1].arg = stack[t][1].arg

\* C5: history independence of load, as stated above
C5_HistoryIndependence ==
    /\ [](\A t \in Threads : Finished(t) => (SameOutcome(t) /\ AsConstructed))
    /\ [][ArgKept]_vars

\* a second call on the instance that went through the inversion
C5_Witness ==
    /\ HasSnr
    /\ calls["t1"] = 2
    /\ Returned("t1")
    /\ last["t1"].inv
    /\ last["t1"].ret.beta # last["t1"].arg

(***************************************************************************)
(* C6.  The stored residual is the input minus its mean, with mean 0, when *)
(* intercept is True, and the input itself otherwise; no step changes it;  *)
(* and it is the e_used of every returned tuple.                           *)
(***************************************************************************)
ResidualAsStored ==
    /\ intercept =>
          /\ \A r \in 1..Len(e) : e[r] = Sub(ctor.e[r], Mean(ctor.e))
          /\ Mean(e) = Zero
    /\ ~intercept => e = ctor.e
    /\ \A t \in Threads : Returned(t) => last[t].ret.e = e

\* C6: the stored residual, as stated above
C6_ResidualStorage ==
    /\ []ResidualAsStored
    /\ [][e' = e]_vars

\* a tuple returned by an instance with intercept whose input residual did
\* not have mean 0
C6_Witness ==
    /\ intercept
    /\ Mean(ctor.e) # Zero
    /\ Returned("t1")
    /\ last["t1"].ret.e = e
    /\ e # ctor.e


(***************************************************************************)
(* Within the inputs tried, the bracket search gives up only where f has   *)
(* no sign change to find: the signal X.(x * beta) is zero for every x, or *)
(* some X0[:, i]' . e is zero and f is nan.                                *)
(***************************************************************************)
BracketFailureIsReal ==
    \A t \in Threads :
        (Finished(t) /\ last[t].exc = "bracket" /\ NonzeroMte) =>
            \A x \in {Rat(1, 2), Num(1), Num(3)} :
                LET r == DirectLoad(Self, Scale(x, last[t].arg))
                IN  Norm2(MatVec(r.X, r.beta)) = Zero

(***************************************************************************)
(* C7.  Two load calls on an instance with snr = s.                        *)
(***************************************************************************)
TookInversionWith(t) ==
    last[t].inv /\ last[t].old_snr = StoredSnr(ctor.snr)

\* C7 as claimed: under every interleaving of the two calls, each takes the
\* inversion branch with old_snr = s, and after both snr is s.
C7_Original ==
    /\ \A t \in Threads : Finished(t) => TookInversionWith(t)
    /\ AllFinished => snr = StoredSnr(ctor.snr)

\* C7 as amended: when the two calls do not overlap in time (the sequential
\* use the design assumes), each takes the inversion branch with
\* old_snr = s, and after both snr is s.
C7_SerializedCallsSafe ==
    ~overlapped =>
        /\ \A t \in Threads : Finished(t) => TookInversionWith(t)
        /\ AllFinished => snr = StoredSnr(ctor.snr)

\* both threads have called load, one after the other
C7_Witness ==
    /\ ~overlapped
    /\ AllFinished
    /\ \A t \in Threads : calls[t] = 1 /\ TookInversionWith(t)
    /\ snr = ctor.snr

(***************************************************************************)
(* C8.  With intercept, no snr, penalties whose gradients at beta are all  *)
(* zero and every scaled column's X0[:, i]' . e nonzero, load returns X of *)
(* X0's shape with first column ones and the other columns zeros, and      *)
(* y = beta[0] - e_used.                                                   *)
(***************************************************************************)
AllGradZero(b) ==
    \A i \in ScaledCols : \A n \in 1..Len(penalties) :
        PenaltyGrad(penalties[n], Tail(b))[i - 1] = Zero

\* C8: the zero-gradient case with intercept, as stated above
C8_ZeroGradientIntercept ==
    \A t \in Threads :
        (Finished(t) /\ intercept /\ ~HasSnr /\ WellShaped(last[t].arg)
            /\ NonzeroMte /\ AllGradZero(last[t].arg)) =>
            LET r == last[t].ret
            IN  /\ r.status = "returned"
                /\ Len(r.X) = Len(X0)
                /\ \A j \in 1..Len(r.X) :
                      /\ Len(r.X[j]) = Len(X0[j])
                      /\ r.X[j][1] = One
                      /\ \A i \in ScaledCols : r.X[j][i] = Zero
                      /\ r.y[j] = Sub(last[t].arg[1], r.e[j])

\* such a call with a penalty in the list and a nonzero intercept coefficient
C8_Witness ==
    /\ Finished("t1")
    /\ intercept
    /\ ~HasSnr
    /\ penalties # <<>>
    /\ WellShaped(last["t1"].arg)
    /\ last["t1"].arg[1] # Zero
    /\ NonzeroMte
    /\ AllGradZero(last["t1"].arg)
    /\ last["t1"].ret.status = "returned"

(***************************************************************************)
(* C9.  self.snr is the construction value or None; with snr = s given it  *)
(* is None exactly while some load frame is between line 106 and line 125; *)
(* every load called from f is in direct mode, so the stack of load frames *)
(* is never deeper than 2; without snr no frame enters the inversion.      *)
(***************************************************************************)
Toggled(c) ==
    c.pc \in BracketPcs \cup BisectPcs \cup {"restore"}

Frames(t) ==
    {stack[t][n] : n \in 1..Len(stack[t])}

\* C9: the two modes of the instance, as stated above
C9_ModeStateMachine ==
    /\ snr \in {StoredSnr(ctor.snr), None}
    /\ HasSnr => (snr = None <=> \E t \in Threads : \E c \in Frames(t) : Toggled(c))
    /\ \A t \in Threads :
          /\ Len(stack[t]) <= 2
          /\ Len(stack[t]) = 2 =>
                /\ ~stack[t][2].inv
                /\ stack[t][2].pc \in {"check", "body"}
    /\ ~HasSnr => \A t \in Threads : \A c \in Frames(t) : ~c.inv /\ ~Toggled(c)

\* f's inner load is running the direct computation while snr is None
C9_Witness ==
    /\ HasSnr
    /\ snr = None
    /\ Len(stack["t1"]) = 2
    /\ stack["t1"][1].pc = "bi_m"
    /\ stack["t1"][2].pc = "body"

(***************************************************************************)
(* C10.  Without snr, for a beta of p rows and some scaled column i with   *)
(* X0[:, i]' . e = 0, load raises nothing and returns a tuple; column i of *)
(* X and all of y are infinite or nan; every scaled column j with          *)
(* X0[:, j]' . e # 0 is X0[:, j] * grad[j] / Mte[j]; the intercept column  *)
(* is ones.                                                                *)
(***************************************************************************)
NotFinite(a) ==
    IsNaN(a) \/ IsInf(a)

\* C10: the division hazard, as stated above
C10_DivisionHazard ==
    \A t \in Threads :
        (Finished(t) /\ ~HasSnr /\ WellShaped(last[t].arg) /\ ~NonzeroMte) =>
            LET r == last[t].ret
            IN  /\ r.status = "returned"
                /\ \A j \in 1..Len(X0) :
                      /\ NotFinite(r.y[j])
                      /\ intercept => r.X[j][1] = One
                      /\ \A i \in ScaledCols :
                            IF ColDotE(X0, i) = Zero THEN NotFinite(r.X[j][i])
                            ELSE r.X[j][i] =
                                    Mul(X0[j][i],
                                        Div(Neg(GradSumAt(last[t].arg, i)),
                                            ColDotE(X0, i)))

\* a returned tuple with one column hit by the division and one column not
C10_Witness ==
    /\ Returned("t1")
    /\ ~HasSnr
    /\ ~intercept
    /\ \E i \in ScaledCols : ColDotE(X0, i) = Zero
    /\ \E i \in ScaledCols :
          /\ ColDotE(X0, i) # Zero
          /\ \A j \in 1..Len(X0) : IsFinite(last["t1"].ret.X[j][i])
    /\ \E j \in 1..Len(X0) : IsInf(last["t1"].ret.y[j])

=============================================================================
